---- MODULE Spec2Model ----
(***************************************************************************)
(* Model of the video-server indexing subsystem (video-server/src/lib.rs)  *)
(* and of the request handlers that share it (video-server/src/main.rs).   *)
(*                                                                         *)
(* Strings and paths are sequences of one-character strings, so that       *)
(* Path::extension, OsStr::to_str and format! are computed, not assumed.   *)
(* An Option<T> is <<>> (None) or <<x>> (Some(x)).                         *)
(***************************************************************************)
EXTENDS Integers, Sequences, FiniteSets, TLC

VARIABLES
    fs,            \* the directory tree on disk: node -> "absent" | "file" | "closed" | "open"
    order,         \* the order in which read_dir returns the children of each directory
    changes,       \* number of changes made to the tree so far
    phase,         \* position of main(): "start" | "building" | "serving" | "crashed"
    videos,        \* VideoPlayerState.videos
    next_index,    \* VideoPlayerState.next_index
    root,          \* VideoPlayerState.root
    stack,         \* the call stack of visit_dirs: one frame per directory being enumerated
    lock,          \* owner of the Mutex around the state: 0 (free) or a handler
    poisoned,      \* the Mutex's poison flag
    hpc,           \* position of each request handler
    hreq,          \* the request each handler is serving
    hres,          \* what each handler has to answer with: a path to stream, a listing
                   \* to render, the redirect it sent, or the panic that ended it
                   \* (named after the unwrap that failed)
    lastIndexed,   \* history: the tree and the mapping at the last completed traversal
    probe          \* a path handed to is_video_file on its own, and the answer

vars == <<fs, order, changes, phase, videos, next_index, root, stack, lock,
          poisoned, hpc, hreq, hres, lastIndexed, probe>>

----------------------------------------------------------------------------
(* Bounds of the model *)

MaxFsChanges == 1
MaxLen == 5

----------------------------------------------------------------------------
(* Strings *)

None == <<>>
Some(x) == <<x>>

\* A byte that is not valid UTF-8 (an OsStr may hold one, a str may not).
BadByte == "<FF>"

\* OsStr::to_str / Path::to_str: Some unless the bytes are not valid UTF-8.
to_str(s) == IF \A i \in 1..Len(s) : s[i] # BadByte THEN Some(s) ELSE None

DigitChars == <<"0", "1", "2", "3", "4", "5", "6", "7", "8", "9">>

\* Display of a usize: decimal, no leading zeros.
RECURSIVE ToDecimal(_)
ToDecimal(n) ==
    IF n < 10 THEN <<DigitChars[n + 1]>>
    ELSE ToDecimal(n \div 10) \o <<DigitChars[(n % 10) + 1]>>

\* The segments of a path between its separators.
RECURSIVE Split(_, _)
Split(s, sep) ==
    IF \A i \in 1..Len(s) : s[i] # sep THEN <<s>>
    ELSE LET i == CHOOSE j \in 1..Len(s) :
                      s[j] = sep /\ \A k \in 1..(j - 1) : s[k] # sep
         IN <<SubSeq(s, 1, i - 1)>> \o Split(SubSeq(s, i + 1, Len(s)), sep)

\* Path::file_name: the last component when it is a normal one. Empty segments
\* and "." segments are no components; a path ending in ".." has no file name.
file_name(path) ==
    LET segs == Split(path, "/")
        kept == SelectSeq(segs, LAMBDA c : c # <<>> /\ c # <<".">>)
    IN IF kept = <<>> THEN None
       ELSE IF kept[Len(kept)] = <<".", ".">> THEN None
       ELSE Some(kept[Len(kept)])

\* Path::extension: the part of the file name after its last dot; None when
\* there is no dot, or when the only dot is the first character.
extension(path) ==
    LET fn == file_name(path)
    IN IF fn = None THEN None
       ELSE LET f == fn[1]
                dots == {i \in 1..Len(f) : f[i] = "."}
            IN IF dots = {} THEN None
               ELSE LET d == CHOOSE i \in dots : \A j \in dots : j <= i
                    IN IF d = 1 THEN None
                       ELSE Some(SubSeq(f, d + 1, Len(f)))

----------------------------------------------------------------------------
(* Classifier *)

VIDEO_EXTENSIONS ==
    << <<"m", "p", "4">>, <<"a", "v", "i">>, <<"f", "l", "v">>,
       <<"h", "e", "i", "c">>, <<"m", "k", "v">>, <<"m", "o", "v">>,
       <<"m", "p", "g">>, <<"m", "p", "e", "g">>, <<"m", "4", "v">>,
       <<"w", "e", "b", "m">>, <<"w", "m", "v">>, <<"3", "g", "p">> >>

\* The HashSet that new() builds from VIDEO_EXTENSIONS.
video_extensions == {VIDEO_EXTENSIONS[i] : i \in 1..Len(VIDEO_EXTENSIONS)}

\* ASCII lowercase of the letters paths are written with here.
Lower(c) == IF c = "M" THEN "m" ELSE IF c = "P" THEN "p" ELSE c

\* is_video_file comparing extensions without regard to case.
is_video_file_nocase(path) ==
    LET ext == extension(path)
    IN IF ext # None
       THEN IF to_str(ext[1]) = None THEN "panic"
            ELSE IF [i \in 1..Len(ext[1]) |-> Lower(ext[1][i])] \in video_extensions
                 THEN "true"
            ELSE "false"
       ELSE "false"

\* is_video_file: "true" | "false", or "panic" when to_str().unwrap() fails.
is_video_file(path) ==
    LET ext == extension(path)
    IN IF ext # None
       THEN IF to_str(ext[1]) = None THEN "panic"
            ELSE IF to_str(ext[1])[1] \in video_extensions THEN "true"
            ELSE "false"
       ELSE "false"

----------------------------------------------------------------------------
(* The directory tree on disk *)

\* VideoPlayerConfig::default().assets_root
assets_root == <<"a", "s", "s", "e", "t", "s">>

Dirs == {"root", "a", "b"}

Files == {"m", "c", "t", "v", "n", "u"}

Nodes == Dirs \cup Files

\* The file name of each node (DirEntry::file_name); the root is the configured path.
Name ==
    [root |-> assets_root,
     a |-> <<"a">>,
     b |-> <<"b">>,
     m |-> <<"m", ".", "m", "p", "4">>,
     c |-> <<"c", ".", "M", "P", "4">>,
     t |-> <<"t", ".", "m", "o", "v">>,
     v |-> <<"v", ".", "m", "o", "v">>,
     n |-> <<"n", ".", "t", "x", "t">>,
     u |-> <<BadByte, ".", "m", "p", "4">>]

Parent ==
    [a |-> "root", b |-> "root", n |-> "root", m |-> "a", c |-> "a", t |-> "b",
     v |-> "b", u |-> "b"]

Children(d) == {x \in Nodes \ {"root"} : Parent[x] = d}

\* What a node can be on disk. A "closed" directory exists but cannot be opened.
NodeStates(x) ==
    IF x = "root" THEN {"absent", "file", "closed", "open"}
    ELSE IF x \in Dirs THEN {"absent", "closed", "open"}
    ELSE {"absent", "file"}

\* The orders in which read_dir may return the children of a directory.
DirOrders(d) ==
    {s \in [1..Cardinality(Children(d)) -> Children(d)] :
        \A i, j \in DOMAIN s : s[i] = s[j] => i = j}

\* DirEntry::path: the directory's path joined with the entry's file name.
RECURSIVE PathOf(_)
PathOf(x) ==
    IF x = "root" THEN Name[x] ELSE PathOf(Parent[x]) \o <<"/">> \o Name[x]

\* Path::is_dir
is_dir(x) == fs[x] \in {"closed", "open"}

\* std::fs::read_dir: Err (None here) unless the directory can be opened,
\* otherwise its entries in the order the filesystem returns them.
read_dir(x) ==
    IF fs[x] = "open"
    THEN Some(SelectSeq(order[x], LAMBDA y : fs[y] # "absent"))
    ELSE None

----------------------------------------------------------------------------
(* VideoPlayerState *)

\* HashMap<String, String> as a function; HashMap::new().
EmptyMap == [k \in {} |-> <<>>]

\* HashMap::insert
Insert(map, k, v) == [x \in (DOMAIN map) \cup {k} |-> IF x = k THEN v ELSE map[x]]

\* advance_index that leaves the counter where it is.
advance_index_stuck(idx) == idx

\* advance_index: fetch_add(1)
advance_index(idx) == idx + 1

\* server_path numbering from 1.
server_path_from_one(idx, path) ==
    ToDecimal(idx + 1) \o <<".">> \o to_str(extension(path)[1])[1]

\* server_path that names every video an mp4.
server_path_always_mp4(idx, path) ==
    ToDecimal(idx) \o <<".", "m", "p", "4">>

\* format!("{}.{}", next_index, extension)
server_path(idx, path) ==
    ToDecimal(idx) \o <<".">> \o to_str(extension(path)[1])[1]

\* load_video panics when path.to_str().unwrap() fails.
load_video_panics(path) == to_str(path) = None

\* load_video that advances the counter twice.
load_video_double_advance(map, idx, path) ==
    [videos |-> Insert(map, server_path(idx, path), to_str(path)[1]),
     next_index |-> advance_index(advance_index(idx))]

\* load_video: the state after the video at path is loaded.
load_video(map, idx, path) ==
    [videos |-> Insert(map, server_path(idx, path), to_str(path)[1]),
     next_index |-> advance_index(idx)]

\* visit_dirs that gives the whole traversal up at a directory it cannot open.
visit_dirs_enter_abandon(stk, x) ==
    IF is_dir(x)
    THEN IF read_dir(x) # None
         THEN Append(stk, [dir |-> x, todo |-> read_dir(x)[1]])
         ELSE <<>>
    ELSE stk

\* visit_dirs on entry: a directory that can be opened gets a frame holding
\* its entries; anything else is skipped and the call returns Ok at once.
visit_dirs_enter(stk, x) ==
    IF is_dir(x)
    THEN IF read_dir(x) # None
         THEN Append(stk, [dir |-> x, todo |-> read_dir(x)[1]])
         ELSE stk
    ELSE stk

\* One call of the directory iterator in the innermost visit_dirs: at the end
\* of the directory the call returns Ok to its caller; otherwise the entry is
\* a directory (recurse), a video file (load it) or something else (ignore).
VisitNext ==
    /\ stack # <<>>
    /\ LET top == stack[Len(stack)]
       IN IF top.todo = <<>>
          THEN /\ stack' = SubSeq(stack, 1, Len(stack) - 1)
               /\ UNCHANGED <<videos, next_index>>
          ELSE LET e == Head(top.todo)
                   rest == [stack EXCEPT ![Len(stack)].todo = Tail(top.todo)]
                   path == PathOf(e)
               IN IF is_dir(e)
                  THEN /\ stack' = visit_dirs_enter(rest, e)
                       /\ UNCHANGED <<videos, next_index>>
                  ELSE IF is_video_file(path) = "true"
                  THEN /\ ~load_video_panics(path)
                       /\ stack' = rest
                       /\ videos' = load_video(videos, next_index, path).videos
                       /\ next_index' = load_video(videos, next_index, path).next_index
                  ELSE /\ is_video_file(path) = "false"
                       /\ stack' = rest
                       /\ UNCHANGED <<videos, next_index>>

\* The iterator yields Err for the entry (entry? returns it up the whole
\* stack, and the caller's unwrap panics).
VisitErr == stack # <<>>

\* The entry is a file whose extension or path is not valid UTF-8.
VisitPanics ==
    /\ stack # <<>>
    /\ stack[Len(stack)].todo # <<>>
    /\ LET e == Head(stack[Len(stack)].todo)
       IN /\ ~is_dir(e)
          /\ \/ is_video_file(PathOf(e)) = "panic"
             \/ /\ is_video_file(PathOf(e)) = "true"
                /\ load_video_panics(PathOf(e))

----------------------------------------------------------------------------
(* main: build the index, then serve *)

\* The request handlers that can run at once.
Handlers == {1, 2}

NoRequest == [op |-> "none", key |-> <<>>]

NoResponse == [kind |-> "none", val |-> <<>>]

NoProbe == [path |-> <<>>, res |-> "none"]

\* The tree of the spec's example: a/m.mp4, a/c.MP4, b/t.mov, n.txt.
InitTree ==
    [root |-> "open", a |-> "open", b |-> "open", m |-> "file", c |-> "file",
     t |-> "file", v |-> "absent", n |-> "file", u |-> "absent"]

InitOrder == [root |-> <<"a", "b", "n">>, a |-> <<"m", "c">>, b |-> <<"v", "t", "u">>]

\* The process before main runs, with no state built yet.
ProcessStart ==
    /\ phase = "start"
    /\ videos = EmptyMap
    /\ next_index = 0
    /\ root = None
    /\ stack = <<>>
    /\ lock = 0
    /\ poisoned = FALSE
    /\ hpc = [h \in Handlers |-> "idle"]
    /\ hreq = [h \in Handlers |-> NoRequest]
    /\ hres = [h \in Handlers |-> NoResponse]

Init ==
    /\ fs = InitTree
    /\ order = InitOrder
    /\ changes = 0
    /\ ProcessStart
    /\ lastIndexed = None
    /\ probe = NoProbe

\* No traversal is running (the tree is changed between traversals only).
NoTraversal == phase # "building" /\ \A h \in Handlers : hpc[h] # "reloading"

\* A file or directory is added, removed, or has its permissions changed.
FsSetNode(x, s) ==
    /\ NoTraversal
    /\ changes < MaxFsChanges
    /\ s \in NodeStates(x) \ {fs[x]}
    /\ fs' = [fs EXCEPT ![x] = s]
    /\ changes' = changes + 1
    /\ UNCHANGED <<order, phase, videos, next_index, root, stack, lock, poisoned,
                   hpc, hreq, hres, lastIndexed, probe>>

\* The filesystem starts returning a directory's entries in another order.
FsReorder(d, s) ==
    /\ NoTraversal
    /\ changes < MaxFsChanges
    /\ s \in DirOrders(d) \ {order[d]}
    /\ order' = [order EXCEPT ![d] = s]
    /\ changes' = changes + 1
    /\ UNCHANGED <<fs, phase, videos, next_index, root, stack, lock, poisoned,
                   hpc, hreq, hres, lastIndexed, probe>>

\* VideoPlayerState::build up to the call of load_videos: new(), root set.
BuildStart ==
    /\ phase = "start"
    /\ phase' = "building"
    /\ videos' = EmptyMap
    /\ next_index' = 0
    /\ root' = Some(assets_root)
    /\ stack' = visit_dirs_enter(<<>>, "root")
    /\ UNCHANGED <<fs, order, changes, lock, poisoned, hpc, hreq, hres, lastIndexed, probe>>

BuildVisit ==
    /\ phase = "building"
    /\ VisitNext
    /\ UNCHANGED <<fs, order, changes, phase, root, lock, poisoned, hpc, hreq, hres,
                   lastIndexed, probe>>

\* load_videos returned Err: its unwrap panics in main and the process ends.
BuildErr ==
    /\ phase = "building"
    /\ VisitErr
    /\ phase' = "crashed"
    /\ UNCHANGED <<fs, order, changes, videos, next_index, root, stack, lock, poisoned,
                   hpc, hreq, hres, lastIndexed, probe>>

\* A to_str().unwrap() panics during the traversal: the process ends.
BuildPanic ==
    /\ phase = "building"
    /\ VisitPanics
    /\ phase' = "crashed"
    /\ UNCHANGED <<fs, order, changes, videos, next_index, root, stack, lock, poisoned,
                   hpc, hreq, hres, lastIndexed, probe>>

\* load_videos returned Ok: build returns the state and main starts serving.
BuildDone ==
    /\ phase = "building"
    /\ stack = <<>>
    /\ phase' = "serving"
    /\ lastIndexed' = Some([fs |-> fs, order |-> order, videos |-> videos])
    /\ UNCHANGED <<fs, order, changes, videos, next_index, root, stack, lock, poisoned,
                   hpc, hreq, hres, probe>>

\* The process is stopped and started again.
Restart ==
    /\ phase \in {"serving", "crashed"}
    /\ phase' = "start"
    /\ videos' = EmptyMap
    /\ next_index' = 0
    /\ root' = None
    /\ stack' = <<>>
    /\ lock' = 0
    /\ poisoned' = FALSE
    /\ hpc' = [h \in Handlers |-> "idle"]
    /\ hreq' = [h \in Handlers |-> NoRequest]
    /\ hres' = [h \in Handlers |-> NoResponse]
    /\ UNCHANGED <<fs, order, changes, lastIndexed, probe>>

----------------------------------------------------------------------------
(* Request handlers (main.rs), each serving one request at a time *)

\* The video ids that requests ask for.
LookupKeys ==
    { <<"0", ".", "m", "p", "4">>, <<"1", ".", "m", "o", "v">>, <<"0", ".", "m", "o", "v">> }

Requests ==
    {[op |-> "lookup", key |-> k] : k \in LookupKeys}
        \cup {[op |-> "list", key |-> <<>>], [op |-> "reload", key |-> <<>>]}

\* The orders in which iterating a HashMap may yield its entries.
MapOrders(map) ==
    {s \in [1..Cardinality(DOMAIN map) -> DOMAIN map] :
        \A i, j \in DOMAIN s : s[i] = s[j] => i = j}

\* A request arrives for /video/:video_id, / or /reload.
Request(h, req) ==
    /\ phase = "serving"
    /\ hpc[h] = "idle"
    /\ req \in Requests
    /\ hpc' = [hpc EXCEPT ![h] = "lock"]
    /\ hreq' = [hreq EXCEPT ![h] = req]
    /\ hres' = [hres EXCEPT ![h] = NoResponse]
    /\ UNCHANGED <<fs, order, changes, phase, videos, next_index, root, stack, lock,
                   poisoned, lastIndexed, probe>>

\* Acquire that does not wait for the mutex to be free.
Acquire_nowait(h) ==
    /\ phase = "serving"
    /\ hpc[h] = "lock"
    /\ IF poisoned
       THEN /\ hpc' = [hpc EXCEPT ![h] = "idle"]
            /\ hres' = [hres EXCEPT ![h] = [kind |-> "panic_poisoned", val |-> <<>>]]
            /\ hreq' = [hreq EXCEPT ![h] = NoRequest]
            /\ UNCHANGED lock
       ELSE /\ hpc' = [hpc EXCEPT ![h] = "locked"]
            /\ lock' = h
            /\ UNCHANGED <<hreq, hres>>
    /\ UNCHANGED <<fs, order, changes, phase, videos, next_index, root, stack,
                   poisoned, lastIndexed, probe>>

\* state.lock().unwrap(): waits for the mutex; panics when it is poisoned.
Acquire(h) ==
    /\ phase = "serving"
    /\ hpc[h] = "lock"
    /\ lock = 0
    /\ IF poisoned
       THEN /\ hpc' = [hpc EXCEPT ![h] = "idle"]
            /\ hres' = [hres EXCEPT ![h] = [kind |-> "panic_poisoned", val |-> <<>>]]
            /\ hreq' = [hreq EXCEPT ![h] = NoRequest]
            /\ UNCHANGED lock
       ELSE /\ hpc' = [hpc EXCEPT ![h] = "locked"]
            /\ lock' = h
            /\ UNCHANGED <<hreq, hres>>
    /\ UNCHANGED <<fs, order, changes, phase, videos, next_index, root, stack,
                   poisoned, lastIndexed, probe>>

\* video_handler that keeps the guard while the file is streamed.
VideoGet_holds(h) ==
    /\ hpc[h] = "locked"
    /\ hreq[h].op = "lookup"
    /\ IF hreq[h].key \in DOMAIN videos
       THEN /\ hpc' = [hpc EXCEPT ![h] = "stream"]
            /\ hres' = [hres EXCEPT ![h] = [kind |-> "path", val |-> videos[hreq[h].key]]]
            /\ UNCHANGED <<lock, poisoned, hreq>>
       ELSE /\ hpc' = [hpc EXCEPT ![h] = "idle"]
            /\ hres' = [hres EXCEPT ![h] = [kind |-> "panic_not_found", val |-> <<>>]]
            /\ hreq' = [hreq EXCEPT ![h] = NoRequest]
            /\ lock' = 0
            /\ poisoned' = TRUE
    /\ UNCHANGED <<fs, order, changes, phase, videos, next_index, root, stack,
                   lastIndexed, probe>>

\* video_handler: videos.get(&video_id), cloned out; the guard is dropped at
\* the end of the statement. An absent id panics with the guard still alive.
VideoGet(h) ==
    /\ hpc[h] = "locked"
    /\ hreq[h].op = "lookup"
    /\ lock' = 0
    /\ IF hreq[h].key \in DOMAIN videos
       THEN /\ hpc' = [hpc EXCEPT ![h] = "stream"]
            /\ hres' = [hres EXCEPT ![h] = [kind |-> "path", val |-> videos[hreq[h].key]]]
            /\ UNCHANGED <<poisoned, hreq>>
       ELSE /\ hpc' = [hpc EXCEPT ![h] = "idle"]
            /\ hres' = [hres EXCEPT ![h] = [kind |-> "panic_not_found", val |-> <<>>]]
            /\ hreq' = [hreq EXCEPT ![h] = NoRequest]
            /\ poisoned' = TRUE
    /\ UNCHANGED <<fs, order, changes, phase, videos, next_index, root, stack,
                   lastIndexed, probe>>

\* video_handler: get_static_file streams the file, the lock released.
VideoStream(h) ==
    /\ hpc[h] = "stream"
    /\ hpc' = [hpc EXCEPT ![h] = "idle"]
    /\ hreq' = [hreq EXCEPT ![h] = NoRequest]
    /\ hres' = [hres EXCEPT ![h] = NoResponse]
    /\ UNCHANGED <<fs, order, changes, phase, videos, next_index, root, stack, lock,
                   poisoned, lastIndexed, probe>>

\* index: the map is cloned and collected into the template's HashMap under
\* the lock; the entries come in the order the HashMap yields them.
IndexClone(h) ==
    /\ hpc[h] = "locked"
    /\ hreq[h].op = "list"
    /\ lock' = 0
    /\ hpc' = [hpc EXCEPT ![h] = "render"]
    /\ \E s \in MapOrders(videos) :
          hres' = [hres EXCEPT ![h] =
                      [kind |-> "listing",
                       val |-> [i \in DOMAIN s |-> <<s[i], videos[s[i]]>>]]]
    /\ UNCHANGED <<fs, order, changes, phase, videos, next_index, root, stack,
                   poisoned, hreq, lastIndexed, probe>>

\* index: the template is rendered, the lock released.
IndexRender(h) ==
    /\ hpc[h] = "render"
    /\ hpc' = [hpc EXCEPT ![h] = "idle"]
    /\ hreq' = [hreq EXCEPT ![h] = NoRequest]
    /\ hres' = [hres EXCEPT ![h] = NoResponse]
    /\ UNCHANGED <<fs, order, changes, phase, videos, next_index, root, stack, lock,
                   poisoned, lastIndexed, probe>>

\* reload that keeps the index it has and walks nothing.
ReloadStart_keep(h) ==
    /\ hpc[h] = "locked"
    /\ hreq[h].op = "reload"
    /\ hpc' = [hpc EXCEPT ![h] = "reloading"]
    /\ stack' = <<>>
    /\ UNCHANGED <<fs, order, changes, phase, videos, next_index, root, lock, poisoned,
                   hreq, hres, lastIndexed, probe>>

\* reload that does not clear the map.
ReloadStart_noclear(h) ==
    /\ hpc[h] = "locked"
    /\ hreq[h].op = "reload"
    /\ hpc' = [hpc EXCEPT ![h] = "reloading"]
    /\ next_index' = 0
    /\ stack' = visit_dirs_enter(<<>>, "root")
    /\ UNCHANGED <<fs, order, changes, phase, videos, root, lock, poisoned, hreq, hres,
                   lastIndexed, probe>>

\* reload that does not reset the counter.
ReloadStart_noreset(h) ==
    /\ hpc[h] = "locked"
    /\ hreq[h].op = "reload"
    /\ hpc' = [hpc EXCEPT ![h] = "reloading"]
    /\ videos' = EmptyMap
    /\ stack' = visit_dirs_enter(<<>>, "root")
    /\ UNCHANGED <<fs, order, changes, phase, next_index, root, lock, poisoned, hreq,
                   hres, lastIndexed, probe>>

\* VideoPlayerState::reload up to the call of load_videos: counter reset, map cleared.
ReloadStart(h) ==
    /\ hpc[h] = "locked"
    /\ hreq[h].op = "reload"
    /\ hpc' = [hpc EXCEPT ![h] = "reloading"]
    /\ next_index' = 0
    /\ videos' = EmptyMap
    /\ stack' = visit_dirs_enter(<<>>, "root")
    /\ UNCHANGED <<fs, order, changes, phase, root, lock, poisoned, hreq, hres,
                   lastIndexed, probe>>

ReloadVisit(h) ==
    /\ hpc[h] = "reloading"
    /\ VisitNext
    /\ UNCHANGED <<fs, order, changes, phase, root, lock, poisoned, hpc, hreq, hres,
                   lastIndexed, probe>>

\* load_videos returned Err: its unwrap panics inside reload, under the
\* handler's guard, which poisons the mutex as the panic unwinds.
ReloadErr(h) ==
    /\ hpc[h] = "reloading"
    /\ VisitErr
    /\ hpc' = [hpc EXCEPT ![h] = "idle"]
    /\ hres' = [hres EXCEPT ![h] = [kind |-> "panic_load_videos", val |-> <<>>]]
    /\ hreq' = [hreq EXCEPT ![h] = NoRequest]
    /\ lock' = 0
    /\ poisoned' = TRUE
    /\ stack' = <<>>
    /\ UNCHANGED <<fs, order, changes, phase, videos, next_index, root,
                   lastIndexed, probe>>

\* A to_str().unwrap() panics during the traversal, under the handler's guard.
ReloadPanic(h) ==
    /\ hpc[h] = "reloading"
    /\ VisitPanics
    /\ hpc' = [hpc EXCEPT ![h] = "idle"]
    /\ hres' = [hres EXCEPT ![h] = [kind |-> "panic_to_str", val |-> <<>>]]
    /\ hreq' = [hreq EXCEPT ![h] = NoRequest]
    /\ lock' = 0
    /\ poisoned' = TRUE
    /\ stack' = <<>>
    /\ UNCHANGED <<fs, order, changes, phase, videos, next_index, root,
                   lastIndexed, probe>>

\* reload returned: the guard is dropped and the handler redirects to "/".
ReloadDone(h) ==
    /\ hpc[h] = "reloading"
    /\ stack = <<>>
    /\ hpc' = [hpc EXCEPT ![h] = "idle"]
    /\ hres' = [hres EXCEPT ![h] = [kind |-> "redirect", val |-> <<>>]]
    /\ hreq' = [hreq EXCEPT ![h] = NoRequest]
    /\ lock' = 0
    /\ lastIndexed' = Some([fs |-> fs, order |-> order, videos |-> videos])
    /\ UNCHANGED <<fs, order, changes, phase, videos, next_index, root, stack,
                   poisoned, probe>>

Next ==
    \/ \E x \in Nodes, s \in {"absent", "file", "closed", "open"} : FsSetNode(x, s)
    \/ \E d \in Dirs : \E s \in DirOrders(d) : FsReorder(d, s)
    \/ BuildStart
    \/ BuildVisit
    \/ BuildErr
    \/ BuildPanic
    \/ BuildDone
    \/ Restart
    \/ \E h \in Handlers : \E req \in Requests : Request(h, req)
    \/ \E h \in Handlers : Acquire(h)
    \/ \E h \in Handlers : VideoGet(h)
    \/ \E h \in Handlers : VideoStream(h)
    \/ \E h \in Handlers : IndexClone(h)
    \/ \E h \in Handlers : IndexRender(h)
    \/ \E h \in Handlers : ReloadStart(h)
    \/ \E h \in Handlers : ReloadVisit(h)
    \/ \E h \in Handlers : ReloadErr(h)
    \/ \E h \in Handlers : ReloadPanic(h)
    \/ \E h \in Handlers : ReloadDone(h)

Spec == Init /\ [][Next]_vars

----------------------------------------------------------------------------
(* The classifier on its own: is_video_file applied to an arbitrary path *)

PathChars == {"m", "p", "4", "M", "P", ".", "/", BadByte}

Paths == UNION {[1..n -> PathChars] : n \in 0..MaxLen}

ClassifyInit ==
    /\ fs = InitTree
    /\ order = InitOrder
    /\ changes = 0
    /\ ProcessStart
    /\ lastIndexed = None
    /\ \E p \in Paths : probe = [path |-> p, res |-> "none"]

Classify ==
    /\ probe.res = "none"
    /\ probe' = [probe EXCEPT !.res = is_video_file(probe.path)]
    /\ UNCHANGED <<fs, order, changes, phase, videos, next_index, root, stack, lock,
                   poisoned, hpc, hreq, hres, lastIndexed>>

ClassifyNext == Classify

SpecClassify == ClassifyInit /\ [][ClassifyNext]_vars

----------------------------------------------------------------------------
(* Vocabulary of the properties *)

\* The sequence number a server key starts with, and the extension it ends with.
FirstDot(key) == CHOOSE i \in 1..Len(key) : key[i] = "." /\ \A j \in 1..(i - 1) : key[j] # "."

DigitValue(c) == CHOOSE d \in 0..9 : DigitChars[d + 1] = c

RECURSIVE FromDecimal(_)
FromDecimal(ds) ==
    IF ds = <<>> THEN 0
    ELSE 10 * FromDecimal(SubSeq(ds, 1, Len(ds) - 1)) + DigitValue(ds[Len(ds)])

SeqNumOf(key) == FromDecimal(SubSeq(key, 1, FirstDot(key) - 1))

KeyExtOf(key) == SubSeq(key, FirstDot(key) + 1, Len(key))

SeqNums(map) == {SeqNumOf(k) : k \in DOMAIN map}

RECURSIVE Ancestors(_)
Ancestors(x) == IF x = "root" THEN {} ELSE {Parent[x]} \cup Ancestors(Parent[x])

\* The files the classifier accepts.
Accepted(x) == x \in Files /\ is_video_file(PathOf(x)) = "true"

\* The accepted files that exist under the root of a tree.
AcceptedUnder(tree) ==
    {x \in Files : /\ Accepted(x)
                   /\ tree[x] = "file"
                   /\ \A d \in Ancestors(x) : tree[d] \in {"closed", "open"}}

\* Those of them that can be reached through directories that can be opened.
AcceptedReachable(tree) ==
    {x \in Files : /\ Accepted(x)
                   /\ tree[x] = "file"
                   /\ \A d \in Ancestors(x) : tree[d] = "open"}

\* A mapping holds exactly the files of a set, each under one key.
MapsExactly(map, files) ==
    /\ \A x \in files : Cardinality({k \in DOMAIN map : map[k] = PathOf(x)}) = 1
    /\ \A k \in DOMAIN map : \E x \in files : map[k] = PathOf(x)

\* The accepted files of a tree in depth-first order: the entries of a
\* directory in the order the filesystem returns them, a subdirectory's
\* files before the entries that follow it.
RECURSIVE DepthFirst(_, _, _)
DepthFirst(tree, ord, todo) ==
    IF todo = <<>> THEN <<>>
    ELSE LET x == Head(todo)
             here == IF x \in Dirs
                     THEN IF tree[x] = "open" THEN DepthFirst(tree, ord, ord[x]) ELSE <<>>
                     ELSE IF tree[x] = "file" /\ Accepted(x) THEN <<x>> ELSE <<>>
         IN here \o DepthFirst(tree, ord, Tail(todo))

VisitOrder(tree, ord) == DepthFirst(tree, ord, <<"root">>)

\* A step in which a traversal ends with success: build returns, or reload does.
BuildReturns == phase = "building" /\ phase' = "serving"

ReloadReturns(h) == hpc[h] = "reloading" /\ hpc'[h] = "idle" /\ hres'[h].kind = "redirect"

TraversalReturns == BuildReturns \/ \E h \in Handlers : ReloadReturns(h)

\* A step in which handler h, holding the lock, looks its key up.
LooksUp(h) ==
    /\ phase' = "serving"
    /\ hpc[h] = "locked" /\ hreq[h].op = "lookup" /\ hpc'[h] # "locked"

\* A step in which the traversal of handler h's reload is cut short.
ReloadAborts(h) ==
    /\ phase' = "serving"
    /\ hpc[h] = "reloading" /\ hpc'[h] # "reloading" /\ hres'[h].kind # "redirect"

----------------------------------------------------------------------------
(* Properties *)

\* C1: a lookup of a server key that is not in the mapping ends in a NotFound
\* response: the handler does not panic, the mutex is not poisoned and the
\* index (entries, next index, root) is unchanged.
C1_AbsentKeyIsNotFound ==
    [][\A h \in Handlers :
          (LooksUp(h) /\ hreq[h].key \notin DOMAIN videos)
              => /\ hres'[h].kind = "not_found"
                 /\ poisoned' = poisoned
                 /\ UNCHANGED <<videos, next_index, root>>]_vars

\* C2: a reload whose traversal hits a filesystem error returns a failure to
\* its caller without panicking, and the mutex stays usable, so that later
\* lookups and listings still complete.
C2_ReloadFailureIsReturned ==
    [][\A h \in Handlers :
          (ReloadAborts(h) /\ hres'[h].kind # "panic_to_str")
              => /\ hres'[h].kind = "reload_failed"
                 /\ ~poisoned']_vars

\* C3: a lookup or listing reads the mapping only while it holds the lock and
\* no reload is under way, so what it reads is the mapping as the last
\* completed build or reload left it; a reload holds the lock from its first
\* change to its last, and nothing else holds it meanwhile.
C3_ReadersSeeCompleteMapping ==
    /\ \A h \in Handlers :
          (hpc[h] = "locked" /\ hreq[h].op \in {"lookup", "list"})
              => /\ lock = h
                 /\ stack = <<>>
                 /\ \A g \in Handlers : hpc[g] # "reloading"
                 /\ lastIndexed # None
                 /\ videos = lastIndexed[1].videos
    /\ \A g \in Handlers :
          hpc[g] = "reloading"
              => /\ lock = g
                 /\ \A h \in Handlers \ {g} : hpc[h] \notin {"locked", "reloading"}

\* C3 witness: a lookup waits for the lock while a reload has cleared the
\* mapping and not yet rebuilt it.
C3_Witness ==
    \E g, h \in Handlers :
        /\ hpc[g] = "reloading"
        /\ hpc[h] = "lock"
        /\ hreq[h].op = "lookup"
        /\ videos # lastIndexed[1].videos

\* C4 as claimed: when build returns, every accepted file under the root has
\* exactly one key, there are no other entries, and the sequence numbers are
\* 0 .. k-1 for k the number of accepted files under the root. (Stated for a
\* root that can be read: C9 is about the root that cannot.)
C4_BuildIndexesAllUnderRoot ==
    [][(BuildReturns /\ fs["root"] = "open")
          => /\ MapsExactly(videos', AcceptedUnder(fs))
             /\ SeqNums(videos') = 0..(Cardinality(AcceptedUnder(fs)) - 1)]_vars

\* C4 amended: when build returns, every accepted file that can be reached
\* from the root through directories that can be opened has exactly one key,
\* there are no other entries, and the sequence numbers are 0 .. k-1 for k
\* the number of those files.
C4_BuildIndexesAllReachable ==
    [][BuildReturns
          => /\ MapsExactly(videos', AcceptedReachable(fs))
             /\ SeqNums(videos') = 0..(Cardinality(AcceptedReachable(fs)) - 1)]_vars

\* C4 witness: build has returned for a tree in which one of two accepted
\* files sits in a directory that cannot be opened.
C4_Witness ==
    /\ phase = "serving"
    /\ \A h \in Handlers : hpc[h] = "idle" /\ hres[h] = NoResponse
    /\ lastIndexed # None /\ lastIndexed[1].fs = fs
    /\ fs["a"] = "closed"
    /\ Cardinality(AcceptedUnder(fs)) = 2
    /\ Cardinality(DOMAIN videos) = 1

\* C5 as claimed: reload starts by resetting the counter to 0, and when it
\* returns the mapping holds exactly the accepted files now under the root,
\* with sequence numbers in [0, k'). (Stated for a root that can be read.)
C5_ReloadReflectsAllUnderRoot ==
    [][\A h \in Handlers :
          /\ (hpc[h] = "locked" /\ hpc'[h] = "reloading") => next_index' = 0
          /\ (ReloadReturns(h) /\ fs["root"] = "open")
                => /\ MapsExactly(videos', AcceptedUnder(fs))
                   /\ SeqNums(videos') \subseteq 0..(Cardinality(AcceptedUnder(fs)) - 1)]_vars

\* C5 amended: reload starts by resetting the counter to 0, and when it
\* returns the mapping holds exactly the accepted files that can now be
\* reached from the root through directories that can be opened, with
\* sequence numbers in [0, k') for k' the number of those files.
C5_ReloadReflectsAllReachable ==
    [][\A h \in Handlers :
          /\ (hpc[h] = "locked" /\ hpc'[h] = "reloading") => next_index' = 0
          /\ ReloadReturns(h)
                => /\ MapsExactly(videos', AcceptedReachable(fs))
                   /\ SeqNums(videos') \subseteq
                          0..(Cardinality(AcceptedReachable(fs)) - 1)
                   /\ next_index' = Cardinality(AcceptedReachable(fs))]_vars

\* C5 witness: a reload has returned after a file indexed by the build was
\* removed from the tree.
C5_Witness ==
    \E h \in Handlers :
        /\ hpc[h] = "idle" /\ hres[h].kind = "redirect"
        /\ lastIndexed # None /\ lastIndexed[1].fs = fs
        /\ fs["m"] = "absent"
        /\ changes = 1
        /\ DOMAIN videos = { <<"0", ".", "m", "o", "v">> }

\* C6: when a traversal returns, the i-th accepted file in depth-first visit
\* order is mapped from the key "<i>.<its extension>", counting from 0, and
\* nothing else has a key (directories and rejected files take no number);
\* a lookup of a key in the mapping answers with the path mapped from it.
C6_KeysFollowVisitOrder ==
    [][/\ TraversalReturns
          => LET visited == VisitOrder(fs, order)
             IN /\ Cardinality(DOMAIN videos') = Len(visited)
                /\ \A i \in 1..Len(visited) :
                      LET key == ToDecimal(i - 1) \o <<".">>
                                     \o extension(PathOf(visited[i]))[1]
                      IN /\ key \in DOMAIN videos'
                         /\ videos'[key] = PathOf(visited[i])
       /\ \A h \in Handlers :
             (LooksUp(h) /\ hreq[h].key \in DOMAIN videos)
                 => hres'[h] = [kind |-> "path", val |-> videos[hreq[h].key]]]_vars

\* C6 witness: the spec's example, a/m.mp4, a/c.MP4, b/t.mov, n.txt visited in
\* that order, and a lookup of "1.mov" answered with the path of b/t.mov.
C6_Witness ==
    /\ fs = InitTree /\ order = InitOrder
    /\ DOMAIN videos = { <<"0", ".", "m", "p", "4">>, <<"1", ".", "m", "o", "v">> }
    /\ \E h \in Handlers :
          /\ hpc[h] = "stream"
          /\ hreq[h].key = <<"1", ".", "m", "o", "v">>
          /\ hres[h].val = PathOf("t")

\* The allow-list as the specification gives it.
AllowList ==
    { <<"m", "p", "4">>, <<"a", "v", "i">>, <<"f", "l", "v">>, <<"h", "e", "i", "c">>,
      <<"m", "k", "v">>, <<"m", "o", "v">>, <<"m", "p", "g">>, <<"m", "p", "e", "g">>,
      <<"m", "4", "v">>, <<"w", "e", "b", "m">>, <<"w", "m", "v">>, <<"3", "g", "p">> }

\* The path has an extension: a dot in its file name, after a non-empty stem.
HasExtension(path) ==
    /\ file_name(path) # None
    /\ \E i \in 2..Len(file_name(path)[1]) : file_name(path)[1][i] = "."

\* The path's extension is exactly e: its file name is a non-empty stem, a
\* dot and e (no member of the allow-list holds a dot).
HasExtensionExactly(path, e) ==
    /\ file_name(path) # None
    /\ LET f == file_name(path)[1]
       IN /\ Len(f) >= Len(e) + 2
          /\ f[Len(f) - Len(e)] = "."
          /\ SubSeq(f, Len(f) - Len(e) + 1, Len(f)) = e

\* The path's extension is in the allow-list but for the case of its letters.
DiffersOnlyInCase(path) ==
    /\ \A e \in AllowList : ~HasExtensionExactly(path, e)
    /\ extension(path) # None
    /\ [i \in 1..Len(extension(path)[1]) |-> Lower(extension(path)[1][i])] \in AllowList

\* C7: is_video_file answers true exactly for the paths whose extension is,
\* letter for letter, one of the twelve of the allow-list; it answers false
\* for a path with no extension and for an extension that differs only in case.
C7_ClassifierIsExactAllowList ==
    probe.res # "none"
        => /\ probe.res = "true" <=> \E e \in AllowList : HasExtensionExactly(probe.path, e)
           /\ ~HasExtension(probe.path) => probe.res = "false"
           /\ DiffersOnlyInCase(probe.path) => probe.res = "false"

\* C7 witness: m.mp4 has been accepted.
C7_Witness ==
    /\ probe.path = <<"m", ".", "m", "p", "4">>
    /\ probe.res = "true"

\* C8: a traversal that returns for the very tree, in the very enumeration
\* order, of the last completed build or reload produces the same mapping
\* from keys to paths.
C8_ReindexingIsIdempotent ==
    [][(/\ TraversalReturns
        /\ lastIndexed # None
        /\ lastIndexed[1].fs = fs
        /\ lastIndexed[1].order = order)
          => videos' = lastIndexed[1].videos]_vars

\* C8 witness: two reloads have returned one after the other on the unchanged
\* tree of the build, which holds two accepted files.
C8_Witness ==
    /\ changes = 0
    /\ Cardinality(DOMAIN videos) = 2
    /\ \A h \in Handlers :
          hpc[h] = "idle" /\ hres[h].kind = "redirect"

\* C9: build does not return an index when the root cannot be read.
C9_BuildFailsOnUnreadableRoot ==
    [][(phase = "building" /\ fs["root"] # "open") => phase' # "serving"]_vars

\* C10: a listing gives the entries in insertion order, which is ascending
\* sequence number.
C10_ListingInInsertionOrder ==
    \A h \in Handlers :
        hres[h].kind = "listing"
            => \A i, j \in DOMAIN hres[h].val :
                  i < j => SeqNumOf(hres[h].val[i][1]) < SeqNumOf(hres[h].val[j][1])

\* C11: is_video_file never fails: for every path, one whose extension is not
\* valid UTF-8 included, it answers true or false, and the index is as it was.
C11_ClassifierNeverFails ==
    probe.res # "none"
        => /\ probe.res \in {"true", "false"}
           /\ videos = EmptyMap /\ next_index = 0 /\ root = None

\* The entries are the first next_index accepted files of the depth-first
\* visit order, each under the key of its position.
InsertedAreFirstVisited ==
    LET visited == VisitOrder(fs, order)
    IN /\ next_index <= Len(visited)
       /\ Cardinality(DOMAIN videos) = next_index
       /\ \A i \in 1..next_index :
             LET key == ToDecimal(i - 1) \o <<".">> \o extension(PathOf(visited[i]))[1]
             IN key \in DOMAIN videos /\ videos[key] = PathOf(visited[i])

\* A step in which a read failure on a directory entry ends the traversal of
\* handler h's reload: nothing more is visited, and the entries inserted
\* before the failure stay, the counter equal to their number.
StopsWithoutRollback(h) ==
    (ReloadAborts(h) /\ hres'[h].kind # "panic_to_str")
        => /\ UNCHANGED <<videos, next_index>>
           /\ stack' = <<>>
           /\ InsertedAreFirstVisited

\* C12: a read failure on a directory entry reaches the caller of reload as
\* an error (a failure response, not a panic) and ends the traversal there:
\* no further entry is visited, and every entry inserted before the failure
\* stays, with the counter equal to their number.
C12_EntryErrorIsPropagated ==
    [][\A h \in Handlers :
          /\ (ReloadAborts(h) /\ hres'[h].kind # "panic_to_str")
                 => hres'[h].kind = "reload_failed"
          /\ StopsWithoutRollback(h)]_vars

\* The part of C12 that the code keeps: the traversal stops at the failure
\* and nothing is rolled back, in reload and in build alike.
EntryErrorStopsWithoutRollback ==
    [][/\ \A h \in Handlers : StopsWithoutRollback(h)
       /\ (phase = "building" /\ phase' = "crashed")
             => /\ UNCHANGED <<videos, next_index>>
                /\ InsertedAreFirstVisited
       /\ (phase = "crashed" /\ phase' = "crashed")
             => UNCHANGED <<videos, next_index, stack>>]_vars

\* A step that starts the traversal of a build or of a reload.
TraversalStarts ==
    \/ phase = "start" /\ phase' = "building"
    \/ \E h \in Handlers : hpc[h] = "locked" /\ hpc'[h] = "reloading"

\* A step of a running traversal that takes the next entry of the innermost
\* directory, the traversal going on afterwards.
VisitsEntry ==
    /\ stack # <<>>
    /\ stack[Len(stack)].todo # <<>>
    /\ stack' # stack
    /\ phase' = phase /\ hpc' = hpc

\* C13: visit_dirs on a path that does not exist, is not a directory or is a
\* directory that cannot be opened returns Ok and changes nothing: at the root
\* the traversal is over with no entry and the counter at 0; at a
\* subdirectory no entry is added, the counter stays, and the enclosing
\* directory goes on with the entries after it.
C13_UnreadablePathIsSkipped ==
    [][/\ (TraversalStarts /\ fs["root"] # "open")
             => stack' = <<>> /\ videos' = EmptyMap /\ next_index' = 0
       /\ (VisitsEntry /\ fs[Head(stack[Len(stack)].todo)] = "closed")
             => /\ stack' = [stack EXCEPT ![Len(stack)].todo = Tail(@)]
                /\ UNCHANGED <<videos, next_index>>]_vars

\* C13 witness: the build has passed the directory a, which cannot be opened,
\* and goes on with the entries of the root that follow it.
C13_Witness ==
    /\ phase = "building"
    /\ fs["a"] = "closed"
    /\ stack = << [dir |-> "root", todo |-> <<"b", "n">>] >>
    /\ videos = EmptyMap /\ next_index = 0

\* The sequence numbers of the keys are 0 .. next_index - 1, one key each.
KeysNumberedBelowNext ==
    /\ SeqNums(videos) = 0 .. (next_index - 1)
    /\ Cardinality(DOMAIN videos) = next_index

\* C14: in every state, in the middle of a traversal and after a build or a
\* reload that was cut short included, the sequence numbers of the keys are
\* exactly 0 .. next_index - 1, each in exactly one key; and next_index never
\* decreases, except in the step that starts a reload and resets it to 0 (a
\* restarted process has a new index).
C14_KeysNumberedBelowNext ==
    [][/\ KeysNumberedBelowNext
       /\ KeysNumberedBelowNext'
       /\ \/ next_index' >= next_index
          \/ /\ \E h \in Handlers : hpc[h] = "locked" /\ hpc'[h] = "reloading"
             /\ next_index' = 0
          \/ phase' = "start"]_vars

\* C14 witness: a reload, started over an index of two entries, is in the
\* middle of its traversal and has inserted one entry.
C14_Witness ==
    /\ \E h \in Handlers : hpc[h] = "reloading"
    /\ stack # <<>>
    /\ next_index = 1 /\ Cardinality(DOMAIN videos) = 1
    /\ lastIndexed # None
    /\ Cardinality(DOMAIN lastIndexed[1].videos) = 2

\* C15: for every entry, in every state, the extension part of the server key
\* is the extension of the entry's path, exactly as the file is named on
\* disk, and it is a member of the allow-list.
C15_KeyExtensionIsFileExtension ==
    \A k \in DOMAIN videos :
        /\ \E x \in Files : videos[k] = PathOf(x)
        /\ HasExtensionExactly(videos[k], KeyExtOf(k))
        /\ KeyExtOf(k) \in AllowList

\* C15 witness: the index of the initial tree, an mp4 and a mov entry, while
\* the file c.MP4 is on disk next to them.
C15_Witness ==
    /\ phase = "serving" /\ NoTraversal
    /\ fs = InitTree
    /\ DOMAIN videos = { <<"0", ".", "m", "p", "4">>, <<"1", ".", "m", "o", "v">> }

\* C16: a handler that streams a file or renders the listing works on the
\* copy it took under the lock and does not hold the lock: the lock is held
\* only by a handler that is looking up, copying or reloading, and a request
\* waiting for the lock while the others only stream or render can take it.
C16_LockReleasedBeforeRendering ==
    /\ \A h \in Handlers :
          hpc[h] \in {"stream", "render"}
              => /\ lock # h
                 /\ hres[h].kind = (IF hpc[h] = "stream" THEN "path" ELSE "listing")
    /\ lock # 0 => hpc[lock] \in {"locked", "reloading"}
    /\ \A h \in Handlers :
          (/\ phase = "serving"
           /\ hpc[h] = "lock"
           /\ \A g \in Handlers \ {h} : hpc[g] \in {"idle", "lock", "stream", "render"})
              => ENABLED Acquire(h)

\* C16 witness: one handler streams a file while the other holds the lock
\* and reloads the index.
C16_Witness ==
    \E h, g \in Handlers :
        /\ hpc[h] = "stream"
        /\ hpc[g] = "reloading" /\ lock = g

\* The file at a position of a visit order, if there is one.
FileAt(visited, i) == IF i \in 1..Len(visited) THEN Some(visited[i]) ELSE None

\* C17: server keys are not stable across reload. When a reload returns, a
\* key that was in the mapping before and is in it still resolves to the file
\* now at the key's position in the visit order: to the path it had before
\* only if the same file was at that position in the previous traversal, and
\* to a different path otherwise.
C17_KeysFollowPositionAcrossReload ==
    [][\A h \in Handlers :
          (ReloadReturns(h) /\ lastIndexed # None)
              => LET before == lastIndexed[1]
                     was == VisitOrder(before.fs, before.order)
                     now == VisitOrder(fs, order)
                 IN \A k \in DOMAIN before.videos \cap DOMAIN videos' :
                       (videos'[k] = before.videos[k])
                           <=> FileAt(now, SeqNumOf(k) + 1) = FileAt(was, SeqNumOf(k) + 1)]_vars

\* C17 witness: a lookup of a key was answered with one path; then the tree
\* changed and a reload returned; the key is still in the mapping, and now
\* maps to a different path.
C17_Witness ==
    \E h, g \in Handlers :
        /\ hpc[h] = "idle" /\ hres[h].kind = "redirect"
        /\ lastIndexed # None /\ lastIndexed[1].videos = videos
        /\ lastIndexed[1].fs = fs /\ lastIndexed[1].order = order
        /\ changes > 0
        /\ hpc[g] = "stream" /\ hres[g].kind = "path"
        /\ hreq[g].key \in DOMAIN videos
        /\ videos[hreq[g].key] # hres[g].val

\* C18: no request handler panics while it holds the lock, so the mutex is
\* never poisoned: whatever requests came before, a request that takes the
\* lock gets it (no request ends in the panic of lock().unwrap()).
C18_MutexNeverPoisoned ==
    /\ ~poisoned
    /\ \A h \in Handlers :
          hres[h].kind \notin {"panic_not_found", "panic_load_videos", "panic_to_str",
                                "panic_poisoned"}

====
